---------------------------- MODULE Spec2Model ----------------------------
(***************************************************************************)
(* A model of telegram_file_sender/main.py: the display-width text         *)
(* utilities, the fuzzy matcher, the interactive contact picker with the   *)
(* interactive send around it, and the scripted commands.                  *)
(*                                                                         *)
(* Strings are sequences of one-character strings.  Python indices are     *)
(* kept 0-based in the state (selected, cursor_pos, original indices), and *)
(* converted at each sequence access.  The external Telegram client and    *)
(* the external scoring library are environments: each call's outcome is a *)
(* nondeterministic choice.                                                *)
(***************************************************************************)
EXTENDS Integers, Sequences, FiniteSets, TLC

VARIABLES
    config_file,    \* CONFIG_FILE: NoFile, or its text
    authorized,     \* whether the external session is authorized
    cmd,            \* the command of the current invocation
    args,           \* its parsed arguments
    pc,             \* where the invocation's coroutine stands
    stdout,         \* the JSON objects printed so far by this invocation
    calls,          \* the external client calls issued so far, with outcomes
    exc,            \* the exception propagating out of the command, if any
    dialogs,        \* the list returned by client.get_dialogs
    ratio,          \* fuzz.partial_ratio of the current query against each dialog
    scored_query,   \* the query of the latest fuzzy_search, the one ratio scores
    search_results, \* the local search_results of cmd_send / cmd_contacts
    target,         \* the id of the resolved transfer target
    state,          \* the picker's state dict
    app,            \* the prompt_toolkit Application: "none", "running", "exited"
    exit_key,       \* the key whose handler called event.app.exit()
    selected_idx,   \* what select_contact returned to main_interactive
    text_in,        \* the (s, max_width) given to the text utilities
    text_out        \* the (text, width) they returned

vars == <<config_file, authorized, cmd, args, pc, stdout, calls, exc, dialogs,
          ratio, scored_query, search_results, target, state, app, exit_key, selected_idx,
          text_in, text_out>>

(***************************************************************************)
(* Bounds of the model.                                                    *)
(***************************************************************************)
MaxDialogs == 3
MaxQueryLen == 2
MaxStrLen == 3
MaxWidth == 4

\* Python's None, where the other values are integers.
None == -1

\* An optional command-line argument: absent (None), or given with a value.
Absent == [some |-> FALSE]
Given(v) == [some |-> TRUE, val |-> v]

\* Python truthiness of an optional string argument: None and "" are false.
Truthy(a) == a.some /\ a.val # <<>>

\* Python truthiness of an optional integer argument: None and 0 are false.
TruthyInt(a) == a.some /\ a.val # 0

Min(a, b) == IF a < b THEN a ELSE b
Max(a, b) == IF a > b THEN a ELSE b

\* range(n) as a sequence: <<0, ..., n-1>>
Range(n) == [i \in 1..n |-> i - 1]

(***************************************************************************)
(* Display-width text utilities.  A character is represented by a token    *)
(* for its Unicode class: "a" and " " are narrow (East Asian width Na,     *)
(* category Ll / Zs), "CJK" is wide (W, Lo), "COMB" is a combining mark    *)
(* that is not wide (A, Mn: U+0301), "WCOMB" is a combining mark that is   *)
(* wide (W, Mn: U+3099), "ELLIPSIS" is U+2026 (A, Po).                      *)
(***************************************************************************)
TextChars == {"a", "CJK", "COMB", "WCOMB"}

east_asian_width(char) ==
    IF char \in {"CJK", "WCOMB"} THEN "W"
    ELSE IF char \in {"COMB", "ELLIPSIS"} THEN "A"
    ELSE "Na"

category(char) ==
    IF char \in {"COMB", "WCOMB"} THEN "Mn"
    ELSE IF char = "CJK" THEN "Lo"
    ELSE IF char = "ELLIPSIS" THEN "Po"
    ELSE IF char = " " THEN "Zs"
    ELSE "Ll"

\* One iteration of get_display_width's loop: the width one character adds.
display_char_width(char) ==
    IF east_asian_width(char) \in {"F", "W"} THEN 2
    ELSE IF category(char) \in {"Mn", "Me", "Cf"} THEN 0
    ELSE 1

RECURSIVE get_display_width(_)
get_display_width(s) ==
    IF s = <<>> THEN 0
    ELSE display_char_width(Head(s)) + get_display_width(Tail(s))

\* char_width as truncate_to_width computes it: the category test comes
\* last and overrides the width test.
truncate_char_width(char) ==
    LET char_width == IF east_asian_width(char) \in {"F", "W"} THEN 2 ELSE 1
    IN  IF category(char) \in {"Mn", "Me", "Cf"} THEN 0 ELSE char_width

\* The loop of truncate_to_width from character i on, with the running
\* width and result.
RECURSIVE truncate_loop(_, _, _, _, _)
truncate_loop(s, i, max_width, width, result) ==
    IF i > Len(s) THEN <<result, width>>
    ELSE LET char_width == truncate_char_width(s[i])
         IN  IF width + char_width > max_width - 1
             THEN <<Append(result, "ELLIPSIS"), width + 1>>
             ELSE truncate_loop(s, i + 1, max_width, width + char_width,
                                Append(result, s[i]))

truncate_to_width(s, max_width) == truncate_loop(s, 1, max_width, 0, <<>>)

pad_to_width(s, target_width) ==
    LET current_width == get_display_width(s)
        padding_needed == target_width - current_width
    IN  s \o [i \in 1..Max(0, padding_needed) |-> " "]

(***************************************************************************)
(* Fuzzy matcher.  fuzz.partial_ratio belongs to an external library: pr   *)
(* gives, for the query at hand, the score it returns for each dialog      *)
(* (pr[i] for the dialog at original index i-1).                           *)
(***************************************************************************)
ScoreVals == {0, 40, 41, 59, 60, 100}

\* list.sort(key=score, reverse=True): stable, equal scores keep their order.
\* One insertion of x into a list already sorted that way.
InsertByScoreDesc(sorted, x) ==
    LET k == Cardinality({j \in 1..Len(sorted) : sorted[j][2] >= x[2]})
    IN  SubSeq(sorted, 1, k) \o <<x>> \o SubSeq(sorted, k + 1, Len(sorted))

RECURSIVE SortByScoreDesc(_)
SortByScoreDesc(results) ==
    IF results = <<>> THEN <<>>
    ELSE InsertByScoreDesc(
            SortByScoreDesc(SubSeq(results, 1, Len(results) - 1)),
            results[Len(results)])

\* The test of line 167 letting a score of 40 pass.
ScorePassesFrom40(score) == score >= 40

\* Whether the loop of fuzzy_search keeps a candidate.
ScorePasses(score) == score > 40

\* The loop of fuzzy_search over dialogs i..n: the (index, score) appended.
RECURSIVE fuzzy_collect(_, _, _)
fuzzy_collect(n, i, pr) ==
    IF i > n THEN <<>>
    ELSE (IF ScorePasses(pr[i]) THEN << <<i - 1, pr[i]>> >> ELSE <<>>)
         \o fuzzy_collect(n, i + 1, pr)

fuzzy_search(ds, query, pr) ==
    IF query = <<>>
    THEN [i \in 1..Len(ds) |-> <<i - 1, 100>>]
    ELSE SortByScoreDesc(fuzzy_collect(Len(ds), 1, pr))


(***************************************************************************)
(* The external client.  A call is logged with its outcome; get_dialogs    *)
(* returns up to MaxDialogs dialogs, each with an id and a name.           *)
(***************************************************************************)
Call(op, arg, outcome) == Append(calls, [op |-> op, arg |-> arg, outcome |-> outcome])

DialogNames == << <<"a">>, <<"CJK", "a">>, <<"a", "WCOMB">>, <<>>, <<"a", "a">> >>

Dialog(i) == [id |-> 100 + i, name |-> DialogNames[((i - 1) % Len(DialogNames)) + 1]]

DialogLists == {[i \in 1..n |-> Dialog(i)] : n \in 0..MaxDialogs}

Called(op) == \E i \in 1..Len(calls) : calls[i].op = op

(***************************************************************************)
(* The list window of build_contact_display (lines 250-285): the rows of   *)
(* the filtered sequence it renders, 0-based, and the one it highlights.   *)
(***************************************************************************)
reserved_lines(has_file) == IF has_file THEN 14 ELSE 12

\* visible_count without the floor of one row when the "more" line is shown.
visible_count_unfloored(n, max_rows, has_file) ==
    LET first == Min(n, max_rows - reserved_lines(has_file))
        show_more == n > first
    IN  IF show_more THEN first - 1 ELSE first

visible_count(n, max_rows, has_file) ==
    LET first == Min(n, max_rows - reserved_lines(has_file))
        show_more == n > first
    IN  IF show_more THEN Max(1, first - 1) ELSE first

window_start(n, selected, max_rows, has_file) ==
    IF selected >= visible_count(n, max_rows, has_file)
    THEN selected - visible_count(n, max_rows, has_file) + 1
    ELSE 0

rendered_rows(filtered, selected, max_rows, has_file) ==
    IF filtered = <<>> THEN {}
    ELSE LET n == Len(filtered)
             start == window_start(n, selected, max_rows, has_file)
         IN  start .. (Min(start + visible_count(n, max_rows, has_file), n) - 1)

highlighted_rows(filtered, selected, max_rows, has_file) ==
    {i \in rendered_rows(filtered, selected, max_rows, has_file) : i = selected}

\* The terminal heights a rendering is looked at under: from one with no
\* room for a row to one with room for more rows than there are.
TermHeights == (reserved_lines(FALSE) - 1) .. (reserved_lines(TRUE) + MaxDialogs + 1)

(***************************************************************************)
(* The contact picker, select_contact_sync.                                *)
(***************************************************************************)
\* The characters a key press can carry as data: printable ones, one that
\* is not printable (a tab), and the multi-character data of a function key.
Chars == {"a", " "}
KeyData == {<<c>> : c \in Chars} \cup {<<"TAB">>, <<"ESC", "[", "1", "1", "~">>}

isprintable(data) == \A i \in 1..Len(data) : data[i] \in Chars

\* The scores the library can return to the picker for one query.
PickerScoreVals == {40, 41, 60}

\* The scores of a query against the dialogs: whatever the library returns
\* for a non-empty query; fuzzy_search does not ask it about an empty one.
Scores(query, n) ==
    IF query = <<>> THEN {[i \in 1..n |-> 100]} ELSE [1..n -> PickerScoreVals]

initial_state(ds) ==
    [query |-> <<>>, cursor_pos |-> 0, selected |-> 0,
     filtered_indices |-> Range(Len(ds)), result |-> None, cancelled |-> FALSE]

\* update_filter without its clamp of the highlighted row.
update_filter_unclamped(st, ds, pr) ==
    LET found == fuzzy_search(ds, st.query, pr)
    IN  [st EXCEPT !.filtered_indices = [k \in 1..Len(found) |-> found[k][1]]]


update_filter(st, ds, pr) ==
    LET found == fuzzy_search(ds, st.query, pr)
        filtered == [k \in 1..Len(found) |-> found[k][1]]
    IN  [st EXCEPT !.filtered_indices = filtered,
                   !.selected = IF st.selected >= Len(filtered)
                                THEN Max(0, Len(filtered) - 1)
                                ELSE st.selected]

\* s.rstrip(): s without its trailing whitespace.
RECURSIVE rstrip(_)
rstrip(s) ==
    IF s # <<>> /\ s[Len(s)] = " " THEN rstrip(SubSeq(s, 1, Len(s) - 1)) ELSE s

\* s.rfind(' '): the 0-based index of the last space, -1 when there is none.
rfind_space(s) ==
    LET at == {i \in 1..Len(s) : s[i] = " "}
    IN  IF at = {} THEN -1 ELSE (CHOOSE i \in at : \A j \in at : j <= i) - 1

\* The body shared by delete_word and delete_word_alt: the new (query, cursor_pos).
word_deleted(st) ==
    LET q == st.query
        left_part == rstrip(SubSeq(q, 1, st.cursor_pos))
        new_pos == IF \E i \in 1..Len(left_part) : left_part[i] = " "
                   THEN rfind_space(left_part) + 1
                   ELSE 0
    IN  [st EXCEPT !.query = SubSeq(q, 1, new_pos) \o SubSeq(q, st.cursor_pos + 1, Len(q)),
                   !.cursor_pos = new_pos]

inPicker == pc = "i_picker" /\ app = "running"

nonPickerVars == <<config_file, authorized, cmd, args, pc, stdout, calls, exc,
                   dialogs, search_results, target, selected_idx, text_in, text_out>>

\* A handler that leaves the query alone leaves the scores alone.
Handled(st) ==
    /\ state' = st
    /\ UNCHANGED <<ratio, scored_query, app, exit_key>>
    /\ UNCHANGED nonPickerVars

\* A handler that edits the query and then calls update_filter: the library
\* scores the new query.
Edited(st) ==
    /\ \E pr \in Scores(st.query, Len(dialogs)) :
          /\ ratio' = pr
          /\ state' = update_filter(st, dialogs, pr)
    /\ scored_query' = st.query
    /\ UNCHANGED <<app, exit_key>>
    /\ UNCHANGED nonPickerVars

\* event.app.exit(): the application stops handling keys.
Exited(name, st) ==
    /\ exit_key' = name
    /\ state' = st
    /\ app' = "exited"
    /\ UNCHANGED <<ratio, scored_query>>
    /\ UNCHANGED nonPickerVars

move_up ==
    /\ inPicker
    /\ Handled(IF state.selected > 0
                     THEN [state EXCEPT !.selected = @ - 1] ELSE state)

move_down ==
    /\ inPicker
    /\ Handled(IF state.selected < Len(state.filtered_indices) - 1
                       THEN [state EXCEPT !.selected = @ + 1] ELSE state)

\* select storing the highlighted row instead of its original index.
select_row ==
    /\ inPicker
    /\ Exited("Enter", IF state.filtered_indices # <<>>
                       THEN [state EXCEPT !.result = state.selected]
                       ELSE state)


select ==
    /\ inPicker
    /\ Exited("Enter", IF state.filtered_indices # <<>>
                       THEN [state EXCEPT !.result =
                                state.filtered_indices[state.selected + 1]]
                       ELSE state)

\* cancel leaving the application without setting the flag.
cancel_unflagged ==
    /\ inPicker
    /\ Exited("Escape", state)

\* Bound to Escape with eager=True: it runs as soon as Escape arrives, also
\* when a Backspace follows.
cancel ==
    /\ inPicker
    /\ Exited("Escape", [state EXCEPT !.cancelled = TRUE])

ctrl_c ==
    /\ inPicker
    /\ Exited("ControlC", [state EXCEPT !.cancelled = TRUE])

move_left ==
    /\ inPicker
    /\ Handled(IF state.cursor_pos > 0
                       THEN [state EXCEPT !.cursor_pos = @ - 1] ELSE state)

\* move_right without its test against the length of the query.
move_right_unclamped ==
    /\ inPicker
    /\ state.cursor_pos <= MaxQueryLen
    /\ Handled([state EXCEPT !.cursor_pos = @ + 1])

move_right ==
    /\ inPicker
    /\ Handled(IF state.cursor_pos < Len(state.query)
                        THEN [state EXCEPT !.cursor_pos = @ + 1] ELSE state)

\* backspace without its call of update_filter.
backspace_unfiltered ==
    /\ inPicker
    /\ Handled(IF state.query # <<>> /\ state.cursor_pos > 0
               THEN [state EXCEPT !.query = SubSeq(@, 1, state.cursor_pos - 1)
                                     \o SubSeq(@, state.cursor_pos + 1, Len(@)),
                                  !.cursor_pos = @ - 1]
               ELSE state)

backspace ==
    /\ inPicker
    /\ IF state.query # <<>> /\ state.cursor_pos > 0
       THEN LET q == state.query
            IN  Edited([state EXCEPT !.query = SubSeq(q, 1, state.cursor_pos - 1)
                                               \o SubSeq(q, state.cursor_pos + 1, Len(q)),
                                     !.cursor_pos = @ - 1])
       ELSE Handled(state)

\* The handler bound to the sequence (Escape, Backspace).  No key sequence
\* reaches it: the eager binding of Escape, cancel, runs on the Escape.
delete_word(st) ==
    IF st.query # <<>> /\ st.cursor_pos > 0 THEN word_deleted(st) ELSE st

\* The bindings added to kb (lines 335-412): keys, handler, eager.
Binding(keys, handler, eager) == [keys |-> keys, handler |-> handler, eager |-> eager]

KeyBindings ==
    {Binding(<<"Up">>, "move_up", FALSE),
     Binding(<<"Down">>, "move_down", FALSE),
     Binding(<<"Enter">>, "select", FALSE),
     Binding(<<"Escape">>, "cancel", TRUE),
     Binding(<<"ControlC">>, "ctrl_c", FALSE),
     Binding(<<"Left">>, "move_left", FALSE),
     Binding(<<"Right">>, "move_right", FALSE),
     Binding(<<"Backspace">>, "backspace", FALSE),
     Binding(<<"Escape", "Backspace">>, "delete_word", FALSE),
     Binding(<<"ControlU">>, "delete_all", FALSE),
     Binding(<<"ControlW">>, "delete_word_alt", FALSE),
     Binding(<<"Any">>, "type_char", FALSE)}

\* The key processor of the prompt library, which the bindings are handed
\* to.  A binding matches the buffered keys when it has as many keys and
\* each is the buffered key or Any.
key_matches(keys, buffer) ==
    /\ Len(keys) = Len(buffer)
    /\ \A i \in 1..Len(keys) : keys[i] = buffer[i] \/ keys[i] = "Any"

get_matches(buffer) == {b \in KeyBindings : key_matches(b.keys, buffer)}

is_prefix_of_longer_match(buffer) ==
    \E b \in KeyBindings :
       /\ Len(b.keys) > Len(buffer)
       /\ key_matches(SubSeq(b.keys, 1, Len(buffer)), buffer)

any_count(b) == Cardinality({i \in 1..Len(b.keys) : b.keys[i] = "Any"})

\* The handler called once the buffer holds these keys, "none" while the
\* processor waits for a longer match.  An eager match is called at once,
\* whatever longer bindings the buffer is a prefix of; among the matches the
\* one with the fewest Any keys is called.
called_handler(buffer) ==
    LET matches == get_matches(buffer)
        eager_matches == {b \in matches : b.eager}
        chosen == IF eager_matches # {} THEN eager_matches
                  ELSE IF is_prefix_of_longer_match(buffer) THEN {}
                  ELSE matches
    IN  IF chosen = {} THEN "none"
        ELSE (CHOOSE b \in chosen :
                 \A c \in chosen : any_count(b) <= any_count(c)).handler

\* The first handler called while the keys pressed arrive one by one, from
\* the k-th on.
RECURSIVE first_handler(_, _)
first_handler(pressed, k) ==
    IF k > Len(pressed) THEN "none"
    ELSE LET handler == called_handler(SubSeq(pressed, 1, k))
         IN  IF handler # "none" THEN handler
             ELSE first_handler(pressed, k + 1)

\* Option+Backspace: the terminal sends Escape, then Backspace.  The
\* processor calls the first handler; when that one exits the application
\* the keys after it are not handled any more.
escape_backspace ==
    /\ inPicker
    /\ LET handler == first_handler(<<"Escape", "Backspace">>, 1)
       IN  IF handler = "cancel"
           THEN Exited("Escape", [state EXCEPT !.cancelled = TRUE])
           ELSE /\ handler = "delete_word"
                /\ IF state.query # <<>> /\ state.cursor_pos > 0
                   THEN Edited(delete_word(state))
                   ELSE Handled(state)

delete_all ==
    /\ inPicker
    /\ Edited([state EXCEPT !.query = <<>>, !.cursor_pos = 0, !.selected = 0])

delete_word_alt ==
    /\ inPicker
    /\ IF state.query # <<>> /\ state.cursor_pos > 0
       THEN Edited(word_deleted(state))
       ELSE Handled(state)

\* type_char without the reset of the highlighted row.
char_inserted_keeping_row(st, char) ==
    LET q == st.query
    IN  [st EXCEPT !.query = SubSeq(q, 1, st.cursor_pos) \o char
                             \o SubSeq(q, st.cursor_pos + 1, Len(q)),
                   !.cursor_pos = @ + 1]

\* The state type_char leaves before it calls update_filter.
char_inserted(st, char) ==
    LET q == st.query
    IN  [st EXCEPT !.query = SubSeq(q, 1, st.cursor_pos) \o char
                             \o SubSeq(q, st.cursor_pos + 1, Len(q)),
                   !.cursor_pos = @ + 1,
                   !.selected = 0]

type_char ==
    /\ inPicker
    /\ \E char \in KeyData :
          IF isprintable(char) /\ Len(char) = 1
          THEN /\ Len(state.query) < MaxQueryLen
               /\ Edited(char_inserted(state, char))
          ELSE /\ UNCHANGED <<state, ratio, scored_query, app, exit_key>>
               /\ UNCHANGED nonPickerVars

\* app.run() has returned: lines 450-452, and the await of select_contact.
select_contact_sync ==
    /\ pc = "i_picker"
    /\ app = "exited"
    /\ selected_idx' = IF state.cancelled THEN None ELSE state.result
    /\ pc' = "i_selected"
    /\ UNCHANGED <<config_file, authorized, cmd, args, stdout, calls, exc, dialogs,
                   ratio, scored_query, search_results, target, state, app, exit_key, text_in, text_out>>

(***************************************************************************)
(* Credential store.  The file is absent, or holds a text.                 *)
(***************************************************************************)
NoFile == [exists |-> FALSE]
FileOf(text) == [exists |-> TRUE, text |-> text]

Digits == <<"0", "1", "2", "3", "4", "5", "6", "7", "8", "9">>

\* str(n) for n >= 0.
RECURSIVE IntToStr(_)
IntToStr(n) ==
    IF n < 10 THEN <<Digits[n + 1]>>
    ELSE IntToStr(n \div 10) \o <<Digits[(n % 10) + 1]>>

DigitVal(c) == (CHOOSE d \in 1..10 : Digits[d] = c) - 1

IsDigits(s) == s # <<>> /\ \A i \in 1..Len(s) : \E d \in 1..10 : Digits[d] = s[i]

\* int(s) of a string of digits.
RECURSIVE StrToInt(_)
StrToInt(s) ==
    IF Len(s) = 1 THEN DigitVal(s[1])
    ELSE 10 * StrToInt(SubSeq(s, 1, Len(s) - 1)) + DigitVal(s[Len(s)])

IsSpace(c) == c \in {" ", "\n"}

\* s.strip(): s without its leading and trailing whitespace.
RECURSIVE strip(_)
strip(s) ==
    IF s # <<>> /\ IsSpace(s[1]) THEN strip(Tail(s))
    ELSE IF s # <<>> /\ IsSpace(s[Len(s)]) THEN strip(SubSeq(s, 1, Len(s) - 1))
    ELSE s

\* s.split('\n'): the pieces between the newlines, at least one.
RECURSIVE split_lines(_)
split_lines(s) ==
    LET at == {i \in 1..Len(s) : s[i] = "\n"}
    IN  IF at = {} THEN <<s>>
        ELSE LET i == CHOOSE k \in at : \A j \in at : k <= j
             IN  <<SubSeq(s, 1, i - 1)>> \o split_lines(SubSeq(s, i + 1, Len(s)))

NoCreds == [some |-> FALSE]

\* get_credentials_or_none.  int() of a first line that is no number raises
\* ValueError: the files modelled are those the program itself wrote.
get_credentials_or_none(file) ==
    IF file.exists
    THEN LET lines == split_lines(strip(file.text))
         IN  IF Len(lines) >= 2
             THEN [some |-> TRUE, api_id |-> StrToInt(strip(lines[1])),
                   api_hash |-> lines[2]]
             ELSE NoCreds
    ELSE NoCreds

\* The text save_credentials (and get_credentials) writes.
credentials_text(api_id, api_hash) ==
    IntToStr(api_id) \o <<"\n">> \o api_hash \o <<"\n">>

save_credentials(api_id, api_hash) == FileOf(credentials_text(api_id, api_hash))

\* The API ids and hashes a user may give.
ApiIds == {0, 7, 12}
ApiHashes == {<<>>, <<"h">>, <<"h", " ">>, <<" ">>}

\* The credential files an invocation may find: none, or one written earlier.
ConfigFiles == {NoFile} \cup
    {save_credentials(i, h) : i \in ApiIds \ {0}, h \in ApiHashes \ {<<>>}}

(***************************************************************************)
(* Interactive send, main_interactive.                                     *)
(***************************************************************************)
FileKinds == {"missing", "dir", "file"}

Console(text) == Append(stdout, [console |-> text])

pickerVars == <<state, app, exit_key, ratio, scored_query>>
textVars == <<text_in, text_out>>

NoState == initial_state(<<>>)
NoKey == "none"

\* Lines 497-516: the path checks and get_credentials, which prompts for
\* the credentials when none are stored.
\* Lines 497-516, the user answering the prompts of get_credentials, when
\* they come, with one of these ids and hashes.
interactive_start_answering(api_ids, api_hashes) ==
    /\ cmd = "interactive" /\ pc = "i_start"
    /\ UNCHANGED <<authorized, cmd, args, calls, dialogs, search_results, target,
                   selected_idx>>
    /\ UNCHANGED pickerVars /\ UNCHANGED textVars
    /\ IF args.file = "missing"
       THEN /\ stdout' = Console("File not found")
            /\ exc' = "SystemExit" /\ pc' = "done"
            /\ UNCHANGED config_file
       ELSE IF args.file = "dir"
       THEN /\ stdout' = Console("Not a file")
            /\ exc' = "SystemExit" /\ pc' = "done"
            /\ UNCHANGED config_file
       ELSE IF get_credentials_or_none(config_file).some
       THEN /\ pc' = "i_connect"
            /\ UNCHANGED <<stdout, exc, config_file>>
       ELSE \/ \E api_id \in api_ids, api_hash \in api_hashes :
                 /\ config_file' = FileOf(credentials_text(api_id, api_hash))
                 /\ stdout' = Console("Credentials saved")
                 /\ pc' = "i_connect"
                 /\ UNCHANGED exc
            \/ /\ stdout' = Console("API ID must be a number")
               /\ exc' = "SystemExit" /\ pc' = "done"
               /\ UNCHANGED config_file

interactive_start == interactive_start_answering(ApiIds, ApiHashes)

\* One awaited client call of main_interactive that can only return or raise.
Outcomes == {"ok", "raise"}

interactive_connect ==
    /\ cmd = "interactive" /\ pc = "i_connect"
    /\ \E outcome \in Outcomes :
          /\ calls' = Call("connect", None, outcome)
          /\ pc' = IF outcome = "ok" THEN "i_auth" ELSE "finally"
          /\ exc' = IF outcome = "ok" THEN exc ELSE "Exception"
    /\ UNCHANGED <<config_file, authorized, cmd, args, stdout, dialogs,
                   search_results, target, selected_idx>>
    /\ UNCHANGED pickerVars /\ UNCHANGED textVars

interactive_is_authorized ==
    /\ cmd = "interactive" /\ pc = "i_auth"
    /\ \E outcome \in Outcomes :
          /\ calls' = Call("is_user_authorized", None,
                           IF outcome = "raise" THEN "raise"
                           ELSE IF authorized THEN "true" ELSE "false")
          /\ IF outcome = "raise"
             THEN pc' = "finally" /\ exc' = "Exception" /\ UNCHANGED stdout
             ELSE IF authorized
             THEN pc' = "i_dialogs" /\ UNCHANGED <<exc, stdout>>
             ELSE /\ pc' = "i_client_start"
                  /\ stdout' = Console("Authentication required")
                  /\ UNCHANGED exc
    /\ UNCHANGED <<config_file, authorized, cmd, args, dialogs,
                   search_results, target, selected_idx>>
    /\ UNCHANGED pickerVars /\ UNCHANGED textVars

\* client.start with the three prompts: the library signs the user in.
interactive_client_start ==
    /\ cmd = "interactive" /\ pc = "i_client_start"
    /\ \E outcome \in Outcomes :
          /\ calls' = Call("start", None, outcome)
          /\ pc' = IF outcome = "ok" THEN "i_dialogs" ELSE "finally"
          /\ exc' = IF outcome = "ok" THEN exc ELSE "Exception"
          /\ authorized' = (outcome = "ok")
    /\ UNCHANGED <<config_file, cmd, args, stdout, dialogs,
                   search_results, target, selected_idx>>
    /\ UNCHANGED pickerVars /\ UNCHANGED textVars

\* Lines 540-544: the dialogs are fetched and the picker starts on them.
interactive_get_dialogs ==
    /\ cmd = "interactive" /\ pc = "i_dialogs"
    /\ \/ /\ calls' = Call("get_dialogs", 100, "raise")
          /\ pc' = "finally" /\ exc' = "Exception"
          /\ UNCHANGED <<dialogs, state, app, exit_key, ratio, scored_query>>
       \/ \E ds \in DialogLists :
             /\ calls' = Call("get_dialogs", 100, "ok")
             /\ dialogs' = ds
             /\ state' = initial_state(ds)
             /\ ratio' = [i \in 1..Len(ds) |-> 100]
             /\ scored_query' = <<>>
             /\ app' = "running"
             /\ exit_key' = NoKey
             /\ pc' = "i_picker"
             /\ UNCHANGED exc
    /\ UNCHANGED <<config_file, authorized, cmd, args, stdout,
                   search_results, target, selected_idx>>
    /\ UNCHANGED textVars

\* Lines 547-554: nothing is sent when the picker returned None; otherwise
\* the dialog at the returned index is the target of send_file.
interactive_send ==
    /\ cmd = "interactive" /\ pc = "i_selected"
    /\ IF selected_idx = None
       THEN /\ stdout' = Console("Cancelled")
            /\ pc' = "finally"
            /\ UNCHANGED <<calls, exc, target>>
       ELSE /\ target' = dialogs[selected_idx + 1].id
            /\ pc' = "finally"
            /\ \E outcome \in Outcomes :
                  /\ calls' = Call("send_file", dialogs[selected_idx + 1].id, outcome)
                  /\ stdout' = IF outcome = "ok"
                               THEN Console("File sent successfully") ELSE stdout
                  /\ exc' = IF outcome = "ok" THEN exc ELSE "Exception"
    /\ UNCHANGED <<config_file, authorized, cmd, args, dialogs,
                   search_results, selected_idx>>
    /\ UNCHANGED pickerVars /\ UNCHANGED textVars

\* The finally clause of a command: client.disconnect().
disconnect ==
    /\ pc = "finally"
    /\ \E outcome \in Outcomes :
          /\ calls' = Call("disconnect", None, outcome)
          /\ exc' = IF outcome = "ok" THEN exc ELSE "Exception"
    /\ pc' = "done"
    /\ UNCHANGED <<config_file, authorized, cmd, args, stdout, dialogs,
                   search_results, target, selected_idx>>
    /\ UNCHANGED pickerVars /\ UNCHANGED textVars

InitInteractive ==
    /\ config_file \in ConfigFiles
    /\ authorized \in BOOLEAN
    /\ cmd = "interactive"
    /\ args \in [file : FileKinds]
    /\ pc = "i_start"
    /\ stdout = <<>>
    /\ calls = <<>>
    /\ exc = "none"
    /\ dialogs = <<>>
    /\ ratio = <<>>
    /\ scored_query = <<>>
    /\ search_results = <<>>
    /\ target = None
    /\ state = NoState
    /\ app = "none"
    /\ exit_key = NoKey
    /\ selected_idx = None
    /\ text_in = <<>>
    /\ text_out = <<>>

NextInteractive ==
    \/ interactive_start
    \/ interactive_connect
    \/ interactive_is_authorized
    \/ interactive_client_start
    \/ interactive_get_dialogs
    \/ move_up
    \/ move_down
    \/ select
    \/ cancel
    \/ ctrl_c
    \/ move_left
    \/ move_right
    \/ backspace
    \/ delete_all
    \/ delete_word_alt
    \/ escape_backspace
    \/ type_char
    \/ select_contact_sync
    \/ interactive_send
    \/ disconnect

SpecInteractive == InitInteractive /\ [][NextInteractive]_vars

(***************************************************************************)
(* The picker inside one interactive send: main_interactive has connected, *)
(* found the session authorized, and is about to fetch the dialogs.        *)
(***************************************************************************)
InitPicker ==
    /\ config_file = save_credentials(7, <<"h">>)
    /\ authorized = TRUE
    /\ cmd = "interactive"
    /\ args = [file |-> "file"]
    /\ pc = "i_dialogs"
    /\ stdout = <<>>
    /\ calls = <<[op |-> "connect", arg |-> None, outcome |-> "ok"],
                 [op |-> "is_user_authorized", arg |-> None, outcome |-> "true"]>>
    /\ exc = "none"
    /\ dialogs = <<>>
    /\ ratio = <<>>
    /\ scored_query = <<>>
    /\ search_results = <<>>
    /\ target = None
    /\ state = NoState
    /\ app = "none"
    /\ exit_key = NoKey
    /\ selected_idx = None
    /\ text_in = <<>>
    /\ text_out = <<>>

NextPicker ==
    \/ interactive_get_dialogs
    \/ move_up
    \/ move_down
    \/ select
    \/ cancel
    \/ ctrl_c
    \/ move_left
    \/ move_right
    \/ backspace
    \/ delete_all
    \/ delete_word_alt
    \/ escape_backspace
    \/ type_char
    \/ select_contact_sync
    \/ interactive_send
    \/ disconnect

SpecPicker == InitPicker /\ [][NextPicker]_vars

(***************************************************************************)
(* The text utilities applied to a string and a width.                     *)
(***************************************************************************)
Strings(alphabet, maxlen) == UNION {[1..k -> alphabet] : k \in 0..maxlen}

\* The variables of a command invocation, when no command runs.
NoInvocation ==
    /\ config_file = NoFile
    /\ authorized = FALSE
    /\ cmd = "none"
    /\ args = <<>>
    /\ pc = "none"
    /\ stdout = <<>>
    /\ calls = <<>>
    /\ exc = "none"
    /\ dialogs = <<>>
    /\ ratio = <<>>
    /\ scored_query = <<>>
    /\ search_results = <<>>
    /\ target = None

\* The variables of the picker, when no picker runs.
NoPicker ==
    /\ state = NoState
    /\ app = "none"
    /\ exit_key = NoKey
    /\ selected_idx = None

invocationVars == <<config_file, authorized, cmd, args, pc, stdout, calls, exc,
                    dialogs, search_results, target, selected_idx>>

apply_truncate_to_width ==
    /\ text_out = <<>>
    /\ LET r == truncate_to_width(text_in.s, text_in.width)
       IN  text_out' = [op |-> "truncate_to_width", text |-> r[1], width |-> r[2]]
    /\ UNCHANGED text_in
    /\ UNCHANGED invocationVars /\ UNCHANGED pickerVars

apply_pad_to_width ==
    /\ text_out = <<>>
    /\ text_out' = [op |-> "pad_to_width",
                    text |-> pad_to_width(text_in.s, text_in.width),
                    width |-> text_in.width]
    /\ UNCHANGED text_in
    /\ UNCHANGED invocationVars /\ UNCHANGED pickerVars

\* The terminal widths a row is rendered under: from one that leaves the
\* name column no room to one that leaves it MaxWidth columns.
TermWidths == 20 .. (20 + MaxWidth)

\* build_contact_display: content_width (line 190) and name_width (line 259).
name_width(term_width) == (term_width - 4) - 16

Unnamed == <<"(", "u", "n", "n", "a", "m", "e", "d", ")">>

\* The name column of one row, lines 272-277.
name_padded(dialog_name, term_width) ==
    LET name == IF dialog_name # <<>> THEN dialog_name ELSE Unnamed
        shown == IF get_display_width(name) > name_width(term_width)
                 THEN truncate_to_width(name, name_width(term_width))[1]
                 ELSE name
    IN  pad_to_width(shown, name_width(term_width))

\* A row of the list is rendered for the name text_in.s.
render_name ==
    /\ text_out = <<>>
    /\ \E term_width \in TermWidths :
          text_out' = [op |-> "name_padded",
                       text |-> name_padded(text_in.s, term_width),
                       width |-> name_width(term_width)]
    /\ UNCHANGED text_in
    /\ UNCHANGED invocationVars /\ UNCHANGED pickerVars

InitText ==
    /\ NoInvocation
    /\ NoPicker
    /\ text_in \in [s : Strings(TextChars, MaxStrLen), width : 1..MaxWidth]
    /\ text_out = <<>>

NextText ==
    \/ apply_truncate_to_width
    \/ apply_pad_to_width
    \/ render_name

SpecText == InitText /\ [][NextText]_vars

(***************************************************************************)
(* The scripted commands.  Each invocation starts from "idle" with the     *)
(* credential file and the session as earlier invocations left them.       *)
(***************************************************************************)
OptOf(values) == {Absent} \cup {Given(v) : v \in values}

\* output_json
Json(obj) == Append(stdout, obj)

\* The object output_error prints; it then raises SystemExit.
ErrorJson(code, message) == [success |-> FALSE, error |-> code, message |-> message]

restVars == <<state, app, exit_key, selected_idx, text_in, text_out>>

\* The account get_me reports.
Me == [id |-> 1, first_name |-> <<"a">>]

\* A client call of a command's try block that either returns, and the
\* command goes on at okpc, or raises, and the finally clause runs.
ClientCall(op, arg, okpc) ==
    \E outcome \in Outcomes :
       /\ calls' = Call(op, arg, outcome)
       /\ pc' = IF outcome = "ok" THEN okpc ELSE "finally"
       /\ exc' = IF outcome = "ok" THEN exc ELSE "Exception"

\* A command starts, with its arguments parsed.
Fresh(name, a) ==
    /\ pc = "idle"
    /\ cmd' = name
    /\ args' = a
    /\ UNCHANGED <<authorized, calls, dialogs, ratio, scored_query, search_results, target>>
    /\ UNCHANGED restVars

\* A command stops before it created the client, having printed obj.
Stops(obj, raised) ==
    /\ stdout' = <<obj>>
    /\ exc' = raised
    /\ pc' = "done"

\* A command has created the client and enters its try block.
Enters(nextpc) ==
    /\ stdout' = <<>>
    /\ exc' = "none"
    /\ pc' = nextpc

ConfigArgs == [api_id : OptOf(ApiIds), api_hash : OptOf(ApiHashes)]

cmd_config ==
    \E a \in ConfigArgs :
       /\ Fresh("config", a)
       /\ IF TruthyInt(a.api_id) /\ Truthy(a.api_hash)
          THEN /\ config_file' = save_credentials(a.api_id.val, a.api_hash.val)
               /\ Stops([success |-> TRUE, message |-> "Credentials saved"], "none")
          ELSE /\ UNCHANGED config_file
               /\ LET creds == get_credentials_or_none(config_file)
                  IN  IF creds.some
                      THEN Stops([success |-> TRUE, configured |-> TRUE,
                                  api_id |-> creds.api_id], "none")
                      ELSE Stops([success |-> TRUE, configured |-> FALSE,
                                  message |-> "No credentials configured"], "none")

(***************************************************************************)
(* cmd_status                                                              *)
(***************************************************************************)
cmd_status ==
    /\ Fresh("status", <<>>)
    /\ UNCHANGED config_file
    /\ IF get_credentials_or_none(config_file).some
       THEN Enters("status_connect")
       ELSE Stops([success |-> TRUE, configured |-> FALSE, authenticated |-> FALSE,
                   message |-> "No API credentials configured"], "none")

inTry(name, at) == cmd = name /\ pc = at

tryVars == <<config_file, cmd, args>>

status_connect ==
    /\ inTry("status", "status_connect")
    /\ ClientCall("connect", None, "status_is_authorized")
    /\ UNCHANGED <<authorized, stdout, dialogs, ratio, scored_query, search_results, target>>
    /\ UNCHANGED tryVars /\ UNCHANGED restVars

status_is_authorized ==
    /\ inTry("status", "status_is_authorized")
    /\ \/ /\ calls' = Call("is_user_authorized", None, "raise")
          /\ pc' = "finally" /\ exc' = "Exception"
          /\ UNCHANGED stdout
       \/ /\ calls' = Call("is_user_authorized", None, IF authorized THEN "true" ELSE "false")
          /\ UNCHANGED exc
          /\ IF authorized
             THEN pc' = "status_get_me" /\ UNCHANGED stdout
             ELSE /\ stdout' = Json([success |-> TRUE, configured |-> TRUE,
                                     authenticated |-> FALSE,
                                     message |-> "Credentials configured but not authenticated"])
                  /\ pc' = "finally"
    /\ UNCHANGED <<authorized, dialogs, ratio, scored_query, search_results, target>>
    /\ UNCHANGED tryVars /\ UNCHANGED restVars

status_get_me ==
    /\ inTry("status", "status_get_me")
    /\ \E outcome \in Outcomes :
          /\ calls' = Call("get_me", None, outcome)
          /\ pc' = "finally"
          /\ exc' = IF outcome = "ok" THEN exc ELSE "Exception"
          /\ stdout' = IF outcome = "ok"
                       THEN Json([success |-> TRUE, configured |-> TRUE,
                                  authenticated |-> TRUE, user |-> Me])
                       ELSE stdout
    /\ UNCHANGED <<authorized, dialogs, ratio, scored_query, search_results, target>>
    /\ UNCHANGED tryVars /\ UNCHANGED restVars

(***************************************************************************)
(* cmd_contacts                                                            *)
(***************************************************************************)
Queries == {<<>>, <<"a">>}

ContactsArgs == [search : OptOf(Queries), limit : {0, 100}]

cmd_contacts ==
    \E a \in ContactsArgs :
       /\ Fresh("contacts", a)
       /\ UNCHANGED config_file
       /\ IF get_credentials_or_none(config_file).some
          THEN Enters("contacts_connect")
          ELSE Stops(ErrorJson("no_credentials", "No API credentials configured."),
                     "SystemExit")

contacts_connect ==
    /\ inTry("contacts", "contacts_connect")
    /\ ClientCall("connect", None, "contacts_is_authorized")
    /\ UNCHANGED <<authorized, stdout, dialogs, ratio, scored_query, search_results, target>>
    /\ UNCHANGED tryVars /\ UNCHANGED restVars

contacts_is_authorized ==
    /\ inTry("contacts", "contacts_is_authorized")
    /\ \/ /\ calls' = Call("is_user_authorized", None, "raise")
          /\ pc' = "finally" /\ exc' = "Exception"
          /\ UNCHANGED stdout
       \/ /\ calls' = Call("is_user_authorized", None, IF authorized THEN "true" ELSE "false")
          /\ IF authorized
             THEN pc' = "contacts_get_dialogs" /\ UNCHANGED <<stdout, exc>>
             ELSE /\ stdout' = Json(ErrorJson("not_authorized", "Not authenticated."))
                  /\ exc' = "SystemExit"
                  /\ pc' = "finally"
    /\ UNCHANGED <<authorized, dialogs, ratio, scored_query, search_results, target>>
    /\ UNCHANGED tryVars /\ UNCHANGED restVars

\* The contacts list of the output: id and name, and the score when searched.
contact_list(ds, found, searched) ==
    [k \in 1..Len(found) |->
        IF searched
        THEN [id |-> ds[found[k][1] + 1].id, name |-> ds[found[k][1] + 1].name,
              match_score |-> found[k][2]]
        ELSE [id |-> ds[found[k][1] + 1].id, name |-> ds[found[k][1] + 1].name]]

\* Lines 733-757.
contacts_get_dialogs ==
    /\ inTry("contacts", "contacts_get_dialogs")
    /\ LET limit == IF args.limit # 0 THEN args.limit ELSE 100
       IN  \/ /\ calls' = Call("get_dialogs", limit, "raise")
              /\ pc' = "finally" /\ exc' = "Exception"
              /\ UNCHANGED <<stdout, dialogs, ratio, scored_query, search_results>>
           \/ \E ds \in DialogLists :
                 /\ calls' = Call("get_dialogs", limit, "ok")
                 /\ dialogs' = ds
                 /\ pc' = "finally"
                 /\ UNCHANGED exc
                 /\ IF Truthy(args.search)
                    THEN \E pr \in [1..Len(ds) -> ScoreVals] :
                            /\ ratio' = pr
                            /\ scored_query' = args.search.val
                            /\ search_results' = fuzzy_search(ds, args.search.val, pr)
                            /\ stdout' = Json(
                                  [success |-> TRUE,
                                   count |-> Len(fuzzy_search(ds, args.search.val, pr)),
                                   contacts |-> contact_list(
                                       ds, fuzzy_search(ds, args.search.val, pr), TRUE)])
                    ELSE /\ UNCHANGED <<ratio, scored_query, search_results>>
                         /\ stdout' = Json(
                               [success |-> TRUE, count |-> Len(ds),
                                contacts |-> contact_list(
                                    ds, [i \in 1..Len(ds) |-> <<i - 1, 100>>], FALSE)])
    /\ UNCHANGED <<authorized, target>>
    /\ UNCHANGED tryVars /\ UNCHANGED restVars

(***************************************************************************)
(* cmd_send                                                                *)
(***************************************************************************)
EntityIds == {0, 7}

SendArgs == [file : FileKinds, to_id : OptOf(EntityIds), to : OptOf(Queries)]

\* Lines 765-779.
cmd_send ==
    \E a \in SendArgs :
       /\ Fresh("send", a)
       /\ UNCHANGED config_file
       /\ IF a.file = "missing"
          THEN Stops(ErrorJson("file_not_found", "File not found"), "SystemExit")
          ELSE IF a.file = "dir"
          THEN Stops(ErrorJson("not_a_file", "Not a file"), "SystemExit")
          ELSE IF ~get_credentials_or_none(config_file).some
          THEN Stops(ErrorJson("no_credentials", "No API credentials configured."),
                     "SystemExit")
          ELSE Enters("send_connect")

send_connect ==
    /\ inTry("send", "send_connect")
    /\ ClientCall("connect", None, "send_is_authorized")
    /\ UNCHANGED <<authorized, stdout, dialogs, ratio, scored_query, search_results, target>>
    /\ UNCHANGED tryVars /\ UNCHANGED restVars

\* send_is_authorized going on to find the recipient whatever the check
\* returned.
send_is_authorized_unchecked ==
    /\ inTry("send", "send_is_authorized")
    /\ calls' = Call("is_user_authorized", None, IF authorized THEN "true" ELSE "false")
    /\ IF TruthyInt(args.to_id)
       THEN pc' = "send_get_entity" /\ UNCHANGED <<stdout, exc>>
       ELSE IF Truthy(args.to)
       THEN pc' = "send_get_dialogs" /\ UNCHANGED <<stdout, exc>>
       ELSE /\ stdout' = Json(ErrorJson("no_recipient", "Specify recipient"))
            /\ exc' = "SystemExit"
            /\ pc' = "finally"
    /\ UNCHANGED <<authorized, dialogs, ratio, scored_query, search_results, target>>
    /\ UNCHANGED tryVars /\ UNCHANGED restVars

\* Lines 784-790, 796 and 808-809: the authorization check, then the choice
\* of how the recipient is found.
send_is_authorized ==
    /\ inTry("send", "send_is_authorized")
    /\ \/ /\ calls' = Call("is_user_authorized", None, "raise")
          /\ pc' = "finally" /\ exc' = "Exception"
          /\ UNCHANGED stdout
       \/ /\ calls' = Call("is_user_authorized", None, IF authorized THEN "true" ELSE "false")
          /\ IF ~authorized
             THEN /\ stdout' = Json(ErrorJson("not_authorized", "Not authenticated."))
                  /\ exc' = "SystemExit"
                  /\ pc' = "finally"
             ELSE IF TruthyInt(args.to_id)
             THEN pc' = "send_get_entity" /\ UNCHANGED <<stdout, exc>>
             ELSE IF Truthy(args.to)
             THEN pc' = "send_get_dialogs" /\ UNCHANGED <<stdout, exc>>
             ELSE /\ stdout' = Json(ErrorJson("no_recipient", "Specify recipient"))
                  /\ exc' = "SystemExit"
                  /\ pc' = "finally"
    /\ UNCHANGED <<authorized, dialogs, ratio, scored_query, search_results, target>>
    /\ UNCHANGED tryVars /\ UNCHANGED restVars

\* Lines 792-795.
send_get_entity ==
    /\ inTry("send", "send_get_entity")
    /\ \E outcome \in Outcomes :
          /\ calls' = Call("get_entity", args.to_id.val, outcome)
          /\ IF outcome = "ok"
             THEN /\ target' = args.to_id.val
                  /\ pc' = "send_file"
                  /\ UNCHANGED <<stdout, exc>>
             ELSE /\ stdout' = Json(ErrorJson("entity_not_found", "Could not find entity"))
                  /\ exc' = "SystemExit"
                  /\ pc' = "finally"
                  /\ UNCHANGED target
    /\ UNCHANGED <<authorized, dialogs, ratio, scored_query, search_results>>
    /\ UNCHANGED tryVars /\ UNCHANGED restVars

\* The test of line 804 refusing a score of 60.
low_match_at_60(score) == score <= 60

\* The test of line 804 on the best score.
low_match(score) == score < 60

\* Lines 798-807.
send_get_dialogs ==
    /\ inTry("send", "send_get_dialogs")
    /\ \/ /\ calls' = Call("get_dialogs", 100, "raise")
          /\ pc' = "finally" /\ exc' = "Exception"
          /\ UNCHANGED <<stdout, dialogs, ratio, scored_query, search_results, target>>
       \/ \E ds \in DialogLists :
          \E pr \in [1..Len(ds) -> ScoreVals] :
             LET found == fuzzy_search(ds, args.to.val, pr)
             IN  /\ calls' = Call("get_dialogs", 100, "ok")
                 /\ dialogs' = ds
                 /\ ratio' = pr
                 /\ scored_query' = args.to.val
                 /\ search_results' = found
                 /\ IF found = <<>>
                    THEN /\ stdout' = Json(ErrorJson("contact_not_found", "No contact found"))
                         /\ exc' = "SystemExit"
                         /\ pc' = "finally"
                         /\ UNCHANGED target
                    ELSE IF low_match(found[1][2])
                    THEN /\ stdout' = Json(ErrorJson("low_match_score",
                                             [best |-> ds[found[1][1] + 1].name,
                                              score |-> found[1][2]]))
                         /\ exc' = "SystemExit"
                         /\ pc' = "finally"
                         /\ UNCHANGED target
                    ELSE /\ target' = ds[found[1][1] + 1].id
                         /\ pc' = "send_file"
                         /\ UNCHANGED <<stdout, exc>>
    /\ UNCHANGED authorized
    /\ UNCHANGED tryVars /\ UNCHANGED restVars

\* Lines 812-828.
send_send_file ==
    /\ inTry("send", "send_file")
    /\ \E outcome \in Outcomes :
          /\ calls' = Call("send_file", target, outcome)
          /\ pc' = "finally"
          /\ exc' = IF outcome = "ok" THEN exc ELSE "Exception"
          /\ stdout' = IF outcome = "ok"
                       THEN Json([success |-> TRUE, message |-> "File sent",
                                  recipient |-> [id |-> target]])
                       ELSE stdout
    /\ UNCHANGED <<authorized, dialogs, ratio, scored_query, search_results, target>>
    /\ UNCHANGED tryVars /\ UNCHANGED restVars

(***************************************************************************)
(* cmd_auth                                                                *)
(***************************************************************************)
Phones == {<<>>, <<"+", "1">>}
ServerHash == <<"s">>
UserHash == <<"u">>

AuthArgs == [phone : OptOf(Phones), code : OptOf({<<"1">>}),
             phone_code_hash : OptOf({UserHash}), password : OptOf({<<"p">>})]

AuthorizedJson == [success |-> TRUE, status |-> "authorized", user |-> Me]

\* Lines 605-612.
cmd_auth ==
    \E a \in AuthArgs :
       /\ Fresh("auth", a)
       /\ UNCHANGED config_file
       /\ IF get_credentials_or_none(config_file).some
          THEN Enters("auth_connect")
          ELSE Stops(ErrorJson("no_credentials", "No API credentials configured."),
                     "SystemExit")

authVars == <<dialogs, ratio, scored_query, search_results, target>>

auth_connect ==
    /\ inTry("auth", "auth_connect")
    /\ ClientCall("connect", None, "auth_is_authorized")
    /\ UNCHANGED <<authorized, stdout>>
    /\ UNCHANGED authVars /\ UNCHANGED tryVars /\ UNCHANGED restVars

\* The stage tests with the test of the code ahead of the test of the phone.
auth_stage_code_first(a) ==
    IF ~Truthy(a.code) THEN "auth_send_code"
    ELSE IF ~Truthy(a.phone) THEN "need_phone"
    ELSE IF Truthy(a.phone_code_hash) THEN "auth_sign_in"
    ELSE "auth_resend_code"

\* Lines 634, 643 and 659: the stage of an unauthorized session, by the flags.
auth_stage(a) ==
    IF ~Truthy(a.phone) THEN "need_phone"
    ELSE IF ~Truthy(a.code) THEN "auth_send_code"
    ELSE IF Truthy(a.phone_code_hash) THEN "auth_sign_in"
    ELSE "auth_resend_code"

\* Line 618: the authorization check; an unauthorized session goes on to
\* its stage.
auth_is_authorized ==
    /\ inTry("auth", "auth_is_authorized")
    /\ \/ /\ calls' = Call("is_user_authorized", None, "raise")
          /\ pc' = "finally" /\ exc' = "Exception"
          /\ UNCHANGED stdout
       \/ /\ calls' = Call("is_user_authorized", None, IF authorized THEN "true" ELSE "false")
          /\ UNCHANGED exc
          /\ IF authorized
             THEN pc' = "auth_get_me" /\ UNCHANGED stdout
             ELSE IF auth_stage(args) = "need_phone"
             THEN /\ stdout' = Json([success |-> TRUE, status |-> "need_phone",
                                     message |-> "Provide phone number with --phone"])
                  /\ pc' = "finally"
             ELSE pc' = auth_stage(args) /\ UNCHANGED stdout
    /\ UNCHANGED authorized
    /\ UNCHANGED authVars /\ UNCHANGED tryVars /\ UNCHANGED restVars

\* Lines 619-631: the session was authorized already.
auth_get_me ==
    /\ inTry("auth", "auth_get_me")
    /\ \E outcome \in Outcomes :
          /\ calls' = Call("get_me", None, outcome)
          /\ pc' = "finally"
          /\ exc' = IF outcome = "ok" THEN exc ELSE "Exception"
          /\ stdout' = IF outcome = "ok" THEN Json(AuthorizedJson) ELSE stdout
    /\ UNCHANGED authorized
    /\ UNCHANGED authVars /\ UNCHANGED tryVars /\ UNCHANGED restVars

\* Lines 644-654.
auth_send_code ==
    /\ inTry("auth", "auth_send_code")
    /\ \E outcome \in Outcomes :
          /\ calls' = Append(calls, [op |-> "send_code_request", arg |-> None,
                                     outcome |-> outcome, hash |-> ServerHash])
          /\ pc' = "finally"
          /\ IF outcome = "ok"
             THEN /\ stdout' = Json([success |-> TRUE, status |-> "code_sent",
                                     phone_code_hash |-> ServerHash,
                                     message |-> "Code sent to Telegram app."])
                  /\ UNCHANGED exc
             ELSE /\ stdout' = Json(ErrorJson("send_code_failed", "error"))
                  /\ exc' = "SystemExit"
    /\ UNCHANGED authorized
    /\ UNCHANGED authVars /\ UNCHANGED tryVars /\ UNCHANGED restVars

\* Lines 661-664, with the except clause of line 709.
auth_resend_code ==
    /\ inTry("auth", "auth_resend_code")
    /\ \E outcome \in Outcomes :
          /\ calls' = Append(calls, [op |-> "send_code_request", arg |-> None,
                                     outcome |-> outcome, hash |-> ServerHash])
          /\ IF outcome = "ok"
             THEN pc' = "auth_sign_in" /\ UNCHANGED <<stdout, exc>>
             ELSE /\ stdout' = Json(ErrorJson("sign_in_failed", "error"))
                  /\ exc' = "SystemExit"
                  /\ pc' = "finally"
    /\ UNCHANGED authorized
    /\ UNCHANGED authVars /\ UNCHANGED tryVars /\ UNCHANGED restVars

\* What client.sign_in with a code can do.
SignInOutcomes == {"ok", "password_needed", "invalid_code", "raise"}

\* The hash sign_in is given: the one supplied, else the one just requested.
hash_used == IF Truthy(args.phone_code_hash) THEN args.phone_code_hash.val ELSE ServerHash

\* Line 666, with the except clauses of lines 681-688 and 707-710.
auth_sign_in ==
    /\ inTry("auth", "auth_sign_in")
    /\ \E outcome \in SignInOutcomes :
          /\ calls' = Append(calls, [op |-> "sign_in", arg |-> None, outcome |-> outcome,
                                     with |-> "code", hash |-> hash_used])
          /\ authorized' = (outcome = "ok")
          /\ IF outcome = "ok"
             THEN pc' = "auth_get_me_signed_in" /\ UNCHANGED <<stdout, exc>>
             ELSE IF outcome = "password_needed"
             THEN IF ~Truthy(args.password)
                  THEN /\ stdout' = Json([success |-> TRUE, status |-> "need_password",
                                          message |-> "2FA is enabled."])
                       /\ pc' = "finally"
                       /\ UNCHANGED exc
                  ELSE pc' = "auth_sign_in_password" /\ UNCHANGED <<stdout, exc>>
             ELSE /\ stdout' = Json(ErrorJson(IF outcome = "invalid_code"
                                              THEN "invalid_code" ELSE "sign_in_failed",
                                              "error"))
                  /\ exc' = "SystemExit"
                  /\ pc' = "finally"
    /\ UNCHANGED authVars /\ UNCHANGED tryVars /\ UNCHANGED restVars

\* Lines 668-679, with the except clause of line 709.
auth_get_me_signed_in ==
    /\ inTry("auth", "auth_get_me_signed_in")
    /\ \E outcome \in Outcomes :
          /\ calls' = Call("get_me", None, outcome)
          /\ pc' = "finally"
          /\ IF outcome = "ok"
             THEN stdout' = Json(AuthorizedJson) /\ UNCHANGED exc
             ELSE /\ stdout' = Json(ErrorJson("sign_in_failed", "error"))
                  /\ exc' = "SystemExit"
    /\ UNCHANGED authorized
    /\ UNCHANGED authVars /\ UNCHANGED tryVars /\ UNCHANGED restVars

\* Line 691, with the except clause of line 704.
auth_sign_in_password ==
    /\ inTry("auth", "auth_sign_in_password")
    /\ \E outcome \in Outcomes :
          /\ calls' = Append(calls, [op |-> "sign_in", arg |-> None, outcome |-> outcome,
                                     with |-> "password", hash |-> <<>>])
          /\ authorized' = (outcome = "ok")
          /\ IF outcome = "ok"
             THEN pc' = "auth_get_me_password" /\ UNCHANGED <<stdout, exc>>
             ELSE /\ stdout' = Json(ErrorJson("password_failed", "error"))
                  /\ exc' = "SystemExit"
                  /\ pc' = "finally"
    /\ UNCHANGED authVars /\ UNCHANGED tryVars /\ UNCHANGED restVars

\* Lines 692-703, with the except clause of line 704.
auth_get_me_password ==
    /\ inTry("auth", "auth_get_me_password")
    /\ \E outcome \in Outcomes :
          /\ calls' = Call("get_me", None, outcome)
          /\ pc' = "finally"
          /\ IF outcome = "ok"
             THEN stdout' = Json(AuthorizedJson) /\ UNCHANGED exc
             ELSE /\ stdout' = Json(ErrorJson("password_failed", "error"))
                  /\ exc' = "SystemExit"
    /\ UNCHANGED authorized
    /\ UNCHANGED authVars /\ UNCHANGED tryVars /\ UNCHANGED restVars

(***************************************************************************)
(* The command line: one invocation after another.                         *)
(***************************************************************************)
\* The process has ended; the next invocation finds the credential file
\* and the session as this one left them.
next_invocation ==
    /\ pc = "done"
    /\ cmd # "interactive"
    /\ pc' = "idle"
    /\ cmd' = "none"
    /\ args' = <<>>
    /\ stdout' = <<>>
    /\ calls' = <<>>
    /\ exc' = "none"
    /\ dialogs' = <<>>
    /\ ratio' = <<>>
    /\ scored_query' = <<>>
    /\ search_results' = <<>>
    /\ target' = None
    /\ UNCHANGED <<config_file, authorized>>
    /\ UNCHANGED restVars

InitCmd ==
    /\ config_file \in ConfigFiles
    /\ authorized \in BOOLEAN
    /\ cmd = "none"
    /\ args = <<>>
    /\ pc = "idle"
    /\ stdout = <<>>
    /\ calls = <<>>
    /\ exc = "none"
    /\ dialogs = <<>>
    /\ ratio = <<>>
    /\ scored_query = <<>>
    /\ search_results = <<>>
    /\ target = None
    /\ NoPicker
    /\ text_in = <<>>
    /\ text_out = <<>>

NextCmd ==
    \/ cmd_config
    \/ cmd_status
    \/ status_connect
    \/ status_is_authorized
    \/ status_get_me
    \/ cmd_auth
    \/ auth_connect
    \/ auth_is_authorized
    \/ auth_get_me
    \/ auth_send_code
    \/ auth_resend_code
    \/ auth_sign_in
    \/ auth_get_me_signed_in
    \/ auth_sign_in_password
    \/ auth_get_me_password
    \/ cmd_contacts
    \/ contacts_connect
    \/ contacts_is_authorized
    \/ contacts_get_dialogs
    \/ cmd_send
    \/ send_connect
    \/ send_is_authorized
    \/ send_get_entity
    \/ send_get_dialogs
    \/ send_send_file
    \/ disconnect
    \/ next_invocation

SpecCmd == InitCmd /\ [][NextCmd]_vars

(***************************************************************************)
(* One send, scripted or interactive.  The user of the interactive send    *)
(* answers the credential prompts with one id and hash and uses the keys   *)
(* of the picker that decide what it returns.                              *)
(***************************************************************************)
InitSend ==
    /\ config_file \in {NoFile, save_credentials(7, <<"h">>)}
    /\ authorized \in BOOLEAN
    /\ \/ cmd = "none" /\ args = <<>> /\ pc = "idle"
       \/ cmd = "interactive" /\ args \in [file : FileKinds] /\ pc = "i_start"
    /\ stdout = <<>>
    /\ calls = <<>>
    /\ exc = "none"
    /\ dialogs = <<>>
    /\ ratio = <<>>
    /\ scored_query = <<>>
    /\ search_results = <<>>
    /\ target = None
    /\ NoPicker
    /\ text_in = <<>>
    /\ text_out = <<>>

NextSend ==
    \/ cmd_send
    \/ send_connect
    \/ send_is_authorized
    \/ send_get_entity
    \/ send_get_dialogs
    \/ send_send_file
    \/ interactive_start_answering({7}, {<<"h">>})
    \/ interactive_connect
    \/ interactive_is_authorized
    \/ interactive_client_start
    \/ interactive_get_dialogs
    \/ move_down
    \/ type_char
    \/ select
    \/ cancel
    \/ ctrl_c
    \/ select_contact_sync
    \/ interactive_send
    \/ disconnect

SpecSend == InitSend /\ [][NextSend]_vars

(***************************************************************************)
(* Properties of the picker.                                               *)
(***************************************************************************)
PickerLive == app \in {"running", "exited"}

\* What a search over n dialogs scored pr must return, as original indices:
\* each dialog scoring above 40 once, none else, higher scores first and
\* equal scores in their original order.
IsSearchOrder(found, n, pr) ==
    /\ \A k \in 1..Len(found) : found[k] \in 0..(n - 1) /\ pr[found[k] + 1] > 40
    /\ \A i \in 1..n : pr[i] > 40 => \E k \in 1..Len(found) : found[k] = i - 1
    /\ \A j, k \in 1..Len(found) :
          j < k => \/ pr[found[j] + 1] > pr[found[k] + 1]
                   \/ pr[found[j] + 1] = pr[found[k] + 1] /\ found[j] < found[k]

\* C1: after any sequence of key events the highlighted row index is within
\* [0, len(filtered)-1], or the filtered sequence is empty, the index is 0
\* and no row is rendered as highlighted.
C1_HighlightInBounds ==
    PickerLive =>
        IF state.filtered_indices = <<>>
        THEN /\ state.selected = 0
             /\ \A h \in TermHeights :
                   highlighted_rows(state.filtered_indices, state.selected, h, TRUE) = {}
        ELSE state.selected \in 0..(Len(state.filtered_indices) - 1)

\* The highlighted row sits on the last of several rows left by a filter
\* that dropped a dialog.
C1_Witness ==
    /\ app = "running"
    /\ state.query # <<>>
    /\ Len(state.filtered_indices) = 2
    /\ Len(dialogs) = 3
    /\ state.selected = 1

\* C2: when Enter is pressed on a non-empty filtered sequence, the outcome
\* is the original index of the row highlighted at that moment, and the
\* interactive send transfers to exactly that dialog.
C2_EnterSelectsOriginalIndex ==
    (exit_key = "Enter" /\ state.filtered_indices # <<>>) =>
        LET original == state.filtered_indices[state.selected + 1]
        IN  /\ state.result = original
            /\ original \in 0..(Len(dialogs) - 1)
            /\ state.query # <<>> => ratio[original + 1] > 40
            /\ pc \in {"i_selected", "finally", "done"} => selected_idx = original
            /\ pc \in {"finally", "done"} =>
                  /\ target = dialogs[original + 1].id
                  /\ Cardinality({i \in 1..Len(calls) : calls[i].op = "send_file"}) = 1
                  /\ \A i \in 1..Len(calls) :
                        calls[i].op = "send_file" => calls[i].arg = dialogs[original + 1].id

\* A send after an Enter on a row whose original index is not its row number.
C2_Witness ==
    /\ pc = "done"
    /\ exit_key = "Enter"
    /\ state.filtered_indices # <<>>
    /\ state.result # state.selected
    /\ Called("send_file")

\* C3 as stated: once the application was told to exit, the outcome fields
\* hold exactly one terminal outcome, selected(index) or cancelled, also
\* after Enter on an empty filtered sequence.
C3_Original ==
    app = "exited" =>
        /\ state.cancelled # (state.result # None)
        /\ pc \in {"i_selected", "finally", "done"} =>
              (selected_idx = None) = state.cancelled

\* C3 as amended: the picker returns an index or None.  Escape and the
\* interrupt key set cancelled, Enter on a non-empty filtered sequence sets
\* result to the original index of the highlighted row; Enter on an empty
\* filtered sequence sets neither field and the picker returns None.
C3_Amended ==
    app = "exited" =>
        /\ exit_key \in {"Escape", "ControlC"} =>
              state.cancelled /\ state.result = None
        /\ (exit_key = "Enter" /\ state.filtered_indices # <<>>) =>
              /\ ~state.cancelled
              /\ state.result = state.filtered_indices[state.selected + 1]
              /\ state.result \in 0..(Len(dialogs) - 1)
        /\ (exit_key = "Enter" /\ state.filtered_indices = <<>>) =>
              ~state.cancelled /\ state.result = None
        /\ exit_key \in {"Escape", "ControlC", "Enter"}
        /\ pc \in {"i_selected", "finally", "done"} =>
              /\ selected_idx = (IF state.cancelled THEN None ELSE state.result)
              /\ (selected_idx = None) =
                    (exit_key # "Enter" \/ state.filtered_indices = <<>>)

\* The picker has returned after Enter on an empty filtered sequence.
C3_Witness ==
    /\ pc = "i_selected"
    /\ exit_key = "Enter"
    /\ state.filtered_indices = <<>>
    /\ state.query # <<>>
    /\ selected_idx = None

\* C4: inserting a printable character leaves the highlighted row at 0 and
\* the filtered sequence that of the new query; whenever deletion empties
\* the query, the filtered sequence is the full list in original order.
C4_InsertResetsDeleteRestores ==
    [][(PickerLive /\ PickerLive') =>
          /\ Len(state'.query) > Len(state.query) =>
                /\ state'.selected = 0
                /\ IsSearchOrder(state'.filtered_indices, Len(dialogs'), ratio')
          /\ (state.query # <<>> /\ state'.query = <<>>) =>
                state'.filtered_indices = Range(Len(dialogs'))]_vars

\* A typed query that filtered some dialogs out and kept others.
C4_Witness ==
    /\ app = "running"
    /\ state.query # <<>>
    /\ state.selected = 0
    /\ state.filtered_indices # <<>>
    /\ Len(state.filtered_indices) < Len(dialogs)
    /\ state.filtered_indices[1] # 0

(***************************************************************************)
(* Properties of the text utilities.                                       *)
(***************************************************************************)
\* C7: for any string s and any max_width w >= 1, the text returned by
\* truncate_to_width(s, w) has display width, as get_display_width computes
\* it, at most w.
C7_TruncatedFits ==
    (text_out # <<>> /\ text_out.op = "truncate_to_width") =>
        get_display_width(text_out.text) <= text_in.width

(***************************************************************************)
(* Properties of the scripted commands.                                    *)
(***************************************************************************)
Printed(code) == \E i \in 1..Len(stdout) :
    "error" \in DOMAIN stdout[i] /\ stdout[i].error = code

SendFileCalls == {i \in 1..Len(calls) : calls[i].op = "send_file"}

\* The best score among the dialogs, and the first dialog that has it.
BestScore == CHOOSE v \in {ratio[i] : i \in 1..Len(dialogs)} :
                \A i \in 1..Len(dialogs) : ratio[i] <= v
TopRanked == CHOOSE i \in 1..Len(dialogs) :
                /\ ratio[i] = BestScore
                /\ \A j \in 1..(i - 1) : ratio[j] < BestScore

\* A fuzzy search with a non-empty query has run in this invocation.
Searched ==
    \/ cmd = "send" /\ pc \in {"send_file", "finally", "done"}
         /\ \E i \in 1..Len(calls) : calls[i].op = "get_dialogs" /\ calls[i].outcome = "ok"
    \/ cmd = "contacts" /\ pc \in {"finally", "done"} /\ Truthy(args.search)
         /\ \E i \in 1..Len(calls) : calls[i].op = "get_dialogs" /\ calls[i].outcome = "ok"

\* C5: for a non-empty query, fuzzy search returns exactly the candidates
\* scoring above 40, each with its score, ordered by score descending, equal
\* scores in their original relative order.
C5_SearchFiltersAndOrders ==
    Searched =>
        /\ IsSearchOrder([k \in 1..Len(search_results) |-> search_results[k][1]],
                         Len(dialogs), ratio)
        /\ \A k \in 1..Len(search_results) :
              search_results[k][2] = ratio[search_results[k][1] + 1]
        /\ Len(search_results) = Cardinality({i \in 1..Len(dialogs) : ratio[i] > 40})

\* A search that dropped a candidate scoring 40, kept one scoring 41, moved
\* a later candidate ahead of an earlier one and kept a tie in order.
C5_Witness ==
    /\ Searched
    /\ \E i \in 1..Len(dialogs) : ratio[i] = 40
    /\ \E i \in 1..Len(dialogs) : ratio[i] = 41
    /\ Len(search_results) >= 2
    /\ search_results[1][1] > search_results[2][1]

\* C6: send with --to NAME transfers to the top-ranked candidate if and only
\* if its score is at least 60; with no candidate above 40 it fails with
\* contact_not_found, with the best at 41..59 with low_match_score, and in
\* both failures no transfer is started.
C6_SendByNameThreshold ==
    (cmd = "send" /\ Searched) =>
        IF Len(dialogs) = 0 \/ BestScore <= 40
        THEN Printed("contact_not_found") /\ SendFileCalls = {} /\ pc # "send_file"
        ELSE IF BestScore < 60
        THEN Printed("low_match_score") /\ SendFileCalls = {} /\ pc # "send_file"
        ELSE /\ ~Printed("contact_not_found") /\ ~Printed("low_match_score")
             /\ target = dialogs[TopRanked].id
             /\ pc \in {"finally", "done"} =>
                   /\ Cardinality(SendFileCalls) = 1
                   /\ \A i \in SendFileCalls : calls[i].arg = dialogs[TopRanked].id

\* A transfer to a top-ranked candidate that scored exactly 60 and is not
\* the first dialog.
C6_Witness ==
    /\ cmd = "send" /\ Searched /\ pc = "done"
    /\ Len(dialogs) > 1
    /\ BestScore = 60
    /\ TopRanked > 1
    /\ \E i \in 1..Len(dialogs) : ratio[i] = 59
    /\ SendFileCalls # {}

ScriptedCommands == {"config", "status", "auth", "contacts", "send"}

\* C8: every invocation of a scripted command prints exactly one JSON object
\* with a success boolean on every path by which it ends, also when an
\* external client call fails; when success is false the object carries
\* error and message.
C8_OneJsonObject ==
    (pc = "done" /\ cmd \in ScriptedCommands) =>
        /\ Len(stdout) = 1
        /\ "success" \in DOMAIN stdout[1]
        /\ stdout[1].success \in BOOLEAN
        /\ ~stdout[1].success => {"error", "message"} \subseteq DOMAIN stdout[1]

\* C9: in scripted send, whenever the command fails with file_not_found,
\* not_a_file, no_credentials or no_recipient, no connect or other external
\* client call has been issued in that invocation.
C9_ValidationBeforeNetwork ==
    (cmd = "send" /\ (\/ Printed("file_not_found") \/ Printed("not_a_file")
                      \/ Printed("no_credentials") \/ Printed("no_recipient"))) =>
        calls = <<>>

CallsOf(op) == {i \in 1..Len(calls) : calls[i].op = op}

Returned(op, outcome) == \E i \in CallsOf(op) : calls[i].outcome = outcome

Status(status) ==
    /\ Len(stdout) = 1
    /\ stdout[1].success
    /\ "status" \in DOMAIN stdout[1]
    /\ stdout[1].status = status

PasswordSignIns == {i \in CallsOf("sign_in") : calls[i].with = "password"}
CodeSignIns == {i \in CallsOf("sign_in") : calls[i].with = "code"}

\* C10: one auth invocation on an unauthorized session reports need_phone
\* without a phone; with a phone and no code it requests a code and reports
\* code_sent with its hash; with phone and code it attempts sign-in and
\* reports authorized on success; when sign-in asks for the two-factor
\* password it reports need_password if none was given, else signs in with
\* the password and reports authorized on success.  An authorized session
\* reports authorized, and no code is requested and no sign-in attempted.
C10_AuthStages ==
    (cmd = "auth" /\ pc = "done") =>
        /\ Returned("is_user_authorized", "true") =>
              /\ CallsOf("send_code_request") = {} /\ CallsOf("sign_in") = {}
              /\ Returned("get_me", "ok") => Status("authorized")
        /\ (Returned("is_user_authorized", "false") /\ ~Truthy(args.phone)) =>
              /\ Status("need_phone")
              /\ CallsOf("send_code_request") = {} /\ CallsOf("sign_in") = {}
        /\ (Returned("is_user_authorized", "false") /\ Truthy(args.phone)
              /\ ~Truthy(args.code)) =>
              /\ Cardinality(CallsOf("send_code_request")) = 1
              /\ CallsOf("sign_in") = {}
              /\ \A i \in CallsOf("send_code_request") :
                    calls[i].outcome = "ok" =>
                       /\ Status("code_sent")
                       /\ stdout[1].phone_code_hash = calls[i].hash
        /\ (Returned("is_user_authorized", "false") /\ Truthy(args.phone)
              /\ Truthy(args.code)) =>
              /\ Truthy(args.phone_code_hash) =>
                    /\ CallsOf("send_code_request") = {}
                    /\ \E i \in CodeSignIns : calls[i].hash = args.phone_code_hash.val
              /\ ~Truthy(args.phone_code_hash) =>
                    /\ Cardinality(CallsOf("send_code_request")) = 1
                    /\ \A i \in CallsOf("send_code_request") :
                          calls[i].outcome = "ok" =>
                             \E j \in CodeSignIns : j > i /\ calls[j].hash = calls[i].hash
              /\ Cardinality(CodeSignIns) <= 1
              /\ (Returned("sign_in", "ok") /\ Returned("get_me", "ok")) =>
                    Status("authorized") /\ authorized
              /\ ~Returned("sign_in", "password_needed") => PasswordSignIns = {}
              /\ (Returned("sign_in", "password_needed") /\ ~Truthy(args.password)) =>
                    Status("need_password") /\ PasswordSignIns = {}
              /\ (Returned("sign_in", "password_needed") /\ Truthy(args.password)) =>
                    Cardinality(PasswordSignIns) = 1

\* Sign-in asked for the password, the password was given, and the
\* invocation reported authorized, having requested the code hash itself.
C10_Witness ==
    /\ cmd = "auth" /\ pc = "done"
    /\ Returned("is_user_authorized", "false")
    /\ ~Truthy(args.phone_code_hash)
    /\ Returned("sign_in", "password_needed")
    /\ PasswordSignIns # {}
    /\ Status("authorized")

\* No invocation prints two objects, and the only invocations that end
\* having printed none are those in which a client call raised an exception
\* the command does not catch; an object printed is well-formed.
NoJsonOnlyAfterRaise ==
    /\ Len(stdout) <= 1
    /\ (pc = "done" /\ cmd \in ScriptedCommands /\ stdout = <<>>) =>
          (exc = "Exception" /\ \E i \in 1..Len(calls) : calls[i].outcome = "raise")
    /\ (pc = "done" /\ cmd \in ScriptedCommands /\ stdout # <<>>) =>
          /\ "success" \in DOMAIN stdout[1]
          /\ ~stdout[1].success => {"error", "message"} \subseteq DOMAIN stdout[1]

(***************************************************************************)
(* Properties of the credential store.                                     *)
(***************************************************************************)
\* The step by which a command starts.
Starts(name) == pc = "idle" /\ cmd' = name

\* The started config invocation was given both an API id and an API hash.
ConfigGiven == args'.api_id.some /\ args'.api_hash.some

\* The started invocation is one that reports whether credentials are
\* configured: status, or config given neither flag.
ReportsConfigured ==
    \/ Starts("status")
    \/ Starts("config") /\ ~args'.api_id.some /\ ~args'.api_hash.some

\* What that invocation finds: status with credentials goes on to connect,
\* and every object it then prints has configured true.
FoundConfigured ==
    \/ cmd' = "status" /\ pc' = "status_connect"
    \/ stdout' # <<>> /\ stdout'[1].configured

\* C11: with no credential file, config without flags and status report
\* configured false; after a config invocation given an id and a hash
\* reports success, the file holds exactly the two lines id and hash,
\* loading returns that same pair, and a file so written makes any later
\* config without flags or status report configured true.
C11_CredentialRoundTrip ==
    [][/\ (Starts("config") /\ ConfigGiven /\ stdout'[1].success) =>
             /\ config_file' = FileOf(IntToStr(args'.api_id.val) \o <<"\n">>
                                      \o args'.api_hash.val \o <<"\n">>)
             /\ get_credentials_or_none(config_file') =
                   [some |-> TRUE, api_id |-> args'.api_id.val,
                    api_hash |-> args'.api_hash.val]
       /\ ReportsConfigured => (FoundConfigured <=> config_file.exists)
      ]_vars

(***************************************************************************)
(* Properties of the rendered list window.                                 *)
(***************************************************************************)
\* The window of row `selected` of n rows under terminal height h holds it,
\* starts at 0 when the row fits under the first visible_count rows, and
\* otherwise ends with it.
WindowFollows(filtered, selected, h, has_file) ==
    LET n == Len(filtered)
        count == visible_count(n, h, has_file)
        start == window_start(n, selected, h, has_file)
        rows == rendered_rows(filtered, selected, h, has_file)
    IN  /\ count >= 1
        /\ selected \in start .. (start + count - 1)
        /\ selected \in rows
        /\ highlighted_rows(filtered, selected, h, has_file) = {selected}
        /\ rows \subseteq 0 .. (n - 1)
        /\ IF selected < count
           THEN start = 0
           ELSE start > 0 /\ \A i \in rows : i <= selected

WordEnd(q, c) ==
    LET at == {j \in 1..c : q[j] # " "}
    IN  IF at = {} THEN 0 ELSE CHOOSE j \in at : \A k \in at : k <= j

\* The space boundary before the word that ends there: the position of the
\* last space before it, 0 (the start) if there is none.
SpaceBoundary(q, c) ==
    LET at == {j \in 1..WordEnd(q, c) : q[j] = " "}
    IN  IF at = {} THEN 0 ELSE CHOOSE j \in at : \A k \in at : k <= j

\* The filtered sequence of the next state is the search result of its query.
Refiltered ==
    IF state'.query = <<>>
    THEN state'.filtered_indices = Range(Len(dialogs'))
    ELSE IsSearchOrder(state'.filtered_indices, Len(dialogs'), ratio')

\* The word-delete transition of a step.
WordDeleteTransition ==
    LET q == state.query
        c == state.cursor_pos
        b == SpaceBoundary(q, c)
    IN  /\ state'.query = SubSeq(q, 1, b) \o SubSeq(q, c + 1, Len(q))
        /\ state'.cursor_pos = b
        /\ b < c
        /\ SubSeq(state'.query, state'.cursor_pos + 1, Len(state'.query))
              = SubSeq(q, c + 1, Len(q))
        /\ Refiltered
        /\ app' = "running"
        /\ state'.result = None /\ ~state'.cancelled
        /\ pc' = "i_picker"

\* C13: each of the two bound word-delete key combinations, Escape followed
\* by Backspace and Ctrl-W, performs the same word-delete transition: with
\* the cursor at c > 0 the characters from the previous space boundary (or
\* the start) up to c are removed, the cursor moves to the boundary, the
\* text after the cursor is unchanged, the filter is re-run and the picker
\* stays in the editing state with no outcome set.
C13_WordDeleteBothBindings ==
    [][(state.cursor_pos > 0 /\ (escape_backspace \/ delete_word_alt))
          => WordDeleteTransition]_vars

\* Ctrl-W alone performs the word-delete transition.
ControlWDeletesWord ==
    [][(state.cursor_pos > 0 /\ delete_word_alt) => WordDeleteTransition]_vars

\* A step that leaves the whole picker state as it was.
PickerUnchanged == state' = state /\ ratio' = ratio /\ app' = app

\* C14: after any sequence of key events 0 <= cursor <= length(query); Left
\* at offset 0, Right at the end of the query and Backspace at offset 0
\* change nothing, and Left and Right move the cursor by one without
\* changing the query, the filtered sequence or the highlighted row.
C14_CursorWithinQuery ==
    /\ [](PickerLive => state.cursor_pos \in 0 .. Len(state.query))
    /\ [][/\ (move_left /\ state.cursor_pos = 0) => PickerUnchanged
          /\ (move_right /\ state.cursor_pos = Len(state.query)) => PickerUnchanged
          /\ (backspace /\ state.cursor_pos = 0) => PickerUnchanged
          /\ (move_left /\ state.cursor_pos > 0) =>
                state'.cursor_pos = state.cursor_pos - 1
          /\ (move_right /\ state.cursor_pos < Len(state.query)) =>
                state'.cursor_pos = state.cursor_pos + 1
          /\ (move_left \/ move_right) =>
                /\ state'.query = state.query
                /\ state'.filtered_indices = state.filtered_indices
                /\ state'.selected = state.selected
                /\ ratio' = ratio
         ]_vars

\* Left has moved the cursor from the end of a query of two characters to
\* its start, with a row other than the first highlighted.
C14_Witness ==
    /\ app = "running"
    /\ Len(state.query) = 2
    /\ state.cursor_pos = 0
    /\ state.selected > 0

(***************************************************************************)
(* Properties of the rendered rows.                                        *)
(***************************************************************************)
\* C15: in every rendering of the contact list, for every terminal width
\* and every contact name, the name column text produced by truncating an
\* overflowing name and then padding has display width exactly the computed
\* name column width.
C15_NameColumnWidth ==
    (text_out # <<>> /\ text_out.op = "name_padded") =>
        get_display_width(text_out.text) = text_out.width

\* The same for names without a wide combining mark on terminals that leave
\* the name column at least one column.
NameColumnWidthOfPlainNames ==
    (/\ text_out # <<>> /\ text_out.op = "name_padded"
     /\ text_out.width >= 1
     /\ \A i \in 1..Len(text_in.s) : text_in.s[i] # "WCOMB") =>
        get_display_width(text_out.text) = text_out.width

\* The same for all names on terminals that leave the name column at least
\* one column.
NameColumnWidthOnWideTerminals ==
    (text_out # <<>> /\ text_out.op = "name_padded" /\ text_out.width >= 1) =>
        get_display_width(text_out.text) = text_out.width

\* The original indices of a search result.
Indices(found) == [k \in 1..Len(found) |-> found[k][1]]

\* C16: in every reachable picker state the stored filtered sequence is the
\* fuzzy search result for the current query over the dialog list, as
\* original indices: the latest search was made for the query the state
\* holds, and the sequence consists of distinct, valid indices.
C16_FilteredIsSearchOfQuery ==
    PickerLive =>
        /\ scored_query = state.query
        /\ state.filtered_indices =
              Indices(fuzzy_search(dialogs, state.query, ratio))
        /\ IF state.query = <<>>
           THEN state.filtered_indices = Range(Len(dialogs))
           ELSE IsSearchOrder(state.filtered_indices, Len(dialogs), ratio)
        /\ \A k \in 1..Len(state.filtered_indices) :
              state.filtered_indices[k] \in 0 .. (Len(dialogs) - 1)
        /\ \A j, k \in 1..Len(state.filtered_indices) :
              j # k => state.filtered_indices[j] # state.filtered_indices[k]

\* A character was removed from the middle of the typed text and the
\* search for what is left reordered the dialogs and dropped one.
C16_Witness ==
    /\ app = "running"
    /\ Len(state.query) = 1
    /\ state.cursor_pos = 0
    /\ Len(dialogs) = 3
    /\ Len(state.filtered_indices) = 2
    /\ state.filtered_indices[1] > state.filtered_indices[2]

(***************************************************************************)
(* Properties of one send.                                                 *)
(***************************************************************************)
Sending == cmd \in {"send", "interactive"}

\* Before the i-th call the authorization check returned true.
CheckedAuthorizedBefore(i) ==
    \E j \in 1..(i - 1) :
       calls[j].op = "is_user_authorized" /\ calls[j].outcome = "true"

\* Before the i-th call the interactive sign-in of client.start completed.
SignedInBefore(i) ==
    \E j \in 1..(i - 1) : calls[j].op = "start" /\ calls[j].outcome = "ok"

\* The i-th call goes to a recipient resolved before it: in scripted send
\* the entity looked up or the dialog found by name, in interactive send
\* the dialog at the index the picker returned.
RecipientResolvedBefore(i) ==
    IF cmd = "interactive"
    THEN /\ app = "exited" /\ exit_key = "Enter"
         /\ selected_idx \in 0 .. (Len(dialogs) - 1)
         /\ calls[i].arg = dialogs[selected_idx + 1].id
    ELSE /\ target # None
         /\ calls[i].arg = target
         /\ \E j \in 1..(i - 1) :
               /\ calls[j].op \in {"get_entity", "get_dialogs"}
               /\ calls[j].outcome = "ok"

\* The invocation has reported a failure.
ReportedFailure ==
    \E k \in 1..Len(stdout) :
       \/ "error" \in DOMAIN stdout[k]
       \/ /\ "console" \in DOMAIN stdout[k]
          /\ stdout[k].console \in {"File not found", "Not a file",
                                    "API ID must be a number"}

\* The picker has returned without a selected index.
PickerCancelled ==
    /\ cmd = "interactive" /\ app = "exited"
    /\ pc \in {"i_selected", "finally", "done"}
    /\ selected_idx = None

\* The invocation got as far as creating the client.
ClientCreated ==
    IF cmd = "interactive"
    THEN pc # "i_start" /\ exc # "SystemExit"
    ELSE /\ cmd = "send" /\ pc # "idle"
         /\ ~Printed("file_not_found") /\ ~Printed("not_a_file")
         /\ ~Printed("no_credentials")

\* What holds of one send apart from how the session came to be authorized.
OneSendThenDisconnect ==
    /\ Cardinality(SendFileCalls) <= 1
    /\ \A i \in SendFileCalls : RecipientResolvedBefore(i)
    /\ (ReportedFailure \/ PickerCancelled) => SendFileCalls = {}
    /\ ~ClientCreated => calls = <<>>
    /\ (pc = "done" /\ ClientCreated) =>
          /\ calls # <<>>
          /\ calls[Len(calls)].op = "disconnect"
          /\ Cardinality(CallsOf("disconnect")) = 1
    /\ pc # "done" => CallsOf("disconnect") = {}

\* C17 as stated: in one scripted or interactive send the transfer call is
\* issued at most once and only after the authorization check returned true
\* and a recipient was resolved; after a reported failure or a cancellation
\* of the picker no transfer is issued; once the client was created the
\* invocation ends with a disconnect call.
C17_Original ==
    Sending =>
        /\ \A i \in SendFileCalls : CheckedAuthorizedBefore(i)
        /\ OneSendThenDisconnect

\* C17 as amended: the transfer is issued only after the authorization
\* check returned true or, in interactive send, after it returned false and
\* the sign-in of client.start completed; the rest as stated.
C17_Amended ==
    Sending =>
        /\ \A i \in SendFileCalls :
              \/ CheckedAuthorizedBefore(i)
              \/ cmd = "interactive" /\ SignedInBefore(i)
        /\ cmd = "send" => \A i \in SendFileCalls : CheckedAuthorizedBefore(i)
        /\ OneSendThenDisconnect

\* An interactive send on a session that was not authorized: the user
\* signed in, picked a dialog other than the first, the file went to it and
\* the client was disconnected.
C17_Witness ==
    /\ cmd = "interactive" /\ pc = "done"
    /\ Returned("is_user_authorized", "false")
    /\ Returned("start", "ok")
    /\ selected_idx > 0
    /\ SendFileCalls # {}
    /\ calls[Len(calls)].op = "disconnect"

=============================================================================
